---- MODULE Spec2Model ----
(***************************************************************************)
(* A model of magmatic's NodePool (src/magmatic/pool.py): the ordered      *)
(* identifier -> Node mapping `_nodes`, add_node / create_node /           *)
(* start_node / get_node / get_player / destroy, and the errors they       *)
(* raise (src/magmatic/errors.py).  The Node class itself (node.py) is not *)
(* part of the sources at hand; the few Node members the pool calls        *)
(* (identifier, region, player_count, get_player, start, destroy) are      *)
(* modelled from the written specification and are marked as such.         *)
(***************************************************************************)
EXTENDS Integers, Sequences, FiniteSets, TLC

(* ---------------------------------------------------------------- bounds *)
\* Node objects that may be constructed in one run.
MaxNodes == 2
\* Session keys (guild ids).
MaxGuilds == 1
\* Entries the mapping may hold (one Node may be registered under several keys).
MaxEntries == 2

\* Session keys of the runs that only register nodes and resolve sessions.
MaxKeys == 3

NodeObj == 1..MaxNodes
Guilds == 1..MaxGuilds
SessionKeys == 1..MaxKeys

(* ----------------------------------------------------------- value space *)
\* Python's None, for an identifier, a region or an error slot.
None == "None"
\* Identifiers callers pass explicitly ('' is a legal str).
IdArgs == {"a", ""}
\* Identifiers callers look up: those, and the default of the first created node.
LookupIds == IdArgs \cup {"MAIN"}
\* Identifiers a caller gives a Node it builds itself (None: let it generate one).
OwnIds == {"a", None}
\* Regions a node may be tagged with, and regions callers ask for.
NodeRegions == {None, "eu"}
RegionArgs == {None, "eu"}
\* What awaiting Node.start() may raise.
StartFailures == {"ConnectionFailure", "HandshakeFailure", "AuthorizationFailure"}

VARIABLES
    nodes,       \* NodePool._nodes: insertion-ordered dict, a sequence of [key, node]
    built,       \* how many Node objects have been constructed (objects 1..built)
    identifier,  \* Node.identifier of each object
    region,      \* Node.region of each object
    players,     \* per Node: the guilds it owns a live Player for
    task,        \* the destroy() coroutine: where it is suspended
    auto,        \* history: per guild, the Player get_player(guild) last returned
                 \* since the last teardown (<<>> if none)
    last         \* the most recent call that returned or raised

vars == <<nodes, built, identifier, region, players, task, auto, last>>

(* ------------------------------------------------- ordered dict helpers *)
Keys(d) == {d[i].key : i \in 1..Len(d)}

Has(d, k) == \E i \in 1..Len(d) : d[i].key = k

IndexOf(d, k) == CHOOSE i \in 1..Len(d) : d[i].key = k

GetItem(d, k) == d[IndexOf(d, k)].node

\* A variant of d[k] = v that moves an overwritten key to the end.
SetItem_move_to_end(d, k, v) ==
    Append(SelectSeq(d, LAMBDA e : e.key # k), [key |-> k, node |-> v])

\* d[k] = v: an existing key keeps its position, a new key goes last.
SetItem(d, k, v) ==
    IF Has(d, k)
    THEN [i \in 1..Len(d) |-> IF d[i].key = k THEN [key |-> k, node |-> v] ELSE d[i]]
    ELSE Append(d, [key |-> k, node |-> v])

\* NodePool.walk_nodes: the values, in insertion order.
walk_nodes(d) == [i \in 1..Len(d) |-> d[i].node]

Range(s) == {s[i] : i \in 1..Len(s)}

(* ------------------------------------------------------- Node (from spec) *)
\* The identifier a Node generates for itself when constructed with None.
GenId(n) == "gen" \o ToString(n)

\* Node.identifier after Node(identifier=arg) builds object n.
NewIdentifier(arg, n) == IF arg = None THEN GenId(n) ELSE arg

\* Node.player_count: the load metric, the count of owned players.
player_count(n) == Cardinality(players[n])

\* A Player is known by its owning Node and its guild while it lives.
Player(n, g) == <<n, g>>

\* Node.get_player(guild, fail_if_not_exists=f) on players map p.
node_get_player(p, n, g, f) ==
    IF g \in p[n]
    THEN [players |-> p, sess |-> Player(n, g), created |-> FALSE, err |-> None]
    ELSE IF f
         THEN [players |-> p, sess |-> <<>>, created |-> FALSE, err |-> "PlayerNotFound"]
         ELSE [players |-> [p EXCEPT ![n] = @ \cup {g}], sess |-> Player(n, g),
               created |-> TRUE, err |-> None]

(* ----------------------------------------------------------- call record *)
\* What the caller of the most recent pool call got: the Node (ret) or Player (sess)
\* returned or the error raised, whether the call built something (created), for
\* get_node / create_node / start_node whether an identifier was given and for
\* get_player whether a node was given (byid), and
\* for destroy() the nodes registered when it was called (reg) and those whose
\* destroy() it invoked (torn).
Call(op, ret, sess, err) ==
    [op |-> op, ret |-> ret, sess |-> sess, err |-> err,
     created |-> FALSE, byid |-> FALSE, reg |-> {}, torn |-> {}]

NoCall == Call("init", 0, <<>>, None)

\* destroy() not running.  While it runs: pos is the iterator's place in the dict,
\* used the dict's size when the iteration began, node the Node whose destroy() is
\* awaited; reg and invoked are what the call record will report.
IdleTask == [pc |-> "idle", pos |-> 0, used |-> 0, node |-> 0, reg |-> {}, invoked |-> {}]

NoAuto == [g \in Guilds |-> <<>>]

Init ==
    /\ nodes = <<>>
    /\ built = 0
    /\ identifier = [n \in NodeObj |-> None]
    /\ region = [n \in NodeObj |-> None]
    /\ players = [n \in NodeObj |-> {}]
    /\ task = IdleTask
    /\ auto = NoAuto
    /\ last = NoCall

(* ---------------------------------------------------------------- Node() *)
\* A caller builds a Node on its own, to hand to add_node later.
NewNode(id) ==
    /\ built < MaxNodes
    /\ built' = built + 1
    /\ identifier' = [identifier EXCEPT ![built + 1] = NewIdentifier(id, built + 1)]
    /\ UNCHANGED <<nodes, region, players, task, auto, last>>

(* -------------------------------------------------------------- add_node *)
\* A variant that stores the node before it tests for the conflict.
add_node_store_first(d, n, id) ==
    LET id1 == IF id = None THEN identifier[n] ELSE id
        key == IF id1 # "" THEN id1 ELSE identifier[n]
    IN  [nodes |-> SetItem(d, key, n), err |-> IF Has(d, id1) THEN "NodeConflict" ELSE None]

\* The result of add_node(node, identifier=id) on mapping d: id1 is the identifier
\* tested for conflict, key is `identifier or node.identifier`, the key stored under.
add_node(d, n, id) ==
    LET id1 == IF id = None THEN identifier[n] ELSE id
        key == IF id1 # "" THEN id1 ELSE identifier[n]
    IN  IF Has(d, id1)
        THEN [nodes |-> d, err |-> "NodeConflict"]
        ELSE [nodes |-> SetItem(d, key, n), err |-> None]

AddNode(n, id) ==
    /\ n \in 1..built
    /\ LET r == add_node(nodes, n, id)
       IN  /\ Len(r.nodes) <= MaxEntries
           /\ nodes' = r.nodes
           /\ last' = Call("add_node", 0, <<>>, r.err)
    /\ UNCHANGED <<built, identifier, region, players, task, auto>>

(* ----------------------------------------------------------- create_node *)
\* The result of create_node(identifier=id) on mapping d, building object n: only
\* on an empty pool is a missing identifier replaced ('MAIN'); otherwise None itself
\* is tested for conflict, given to Node() and used as the key.
create_node(d, id, n) ==
    LET id1 == IF id = None /\ Len(d) = 0 THEN "MAIN" ELSE id
    IN  IF Has(d, id1)
        THEN [nodes |-> d, key |-> id1, ret |-> 0, err |-> "NodeConflict"]
        ELSE [nodes |-> SetItem(d, id1, n), key |-> id1, ret |-> n, err |-> None]

CreateNode(id, rg) ==
    LET r == create_node(nodes, id, built + 1)
    IN  /\ r.err = None => built < MaxNodes /\ Len(r.nodes) <= MaxEntries
        /\ nodes' = r.nodes
        /\ built' = IF r.err = None THEN built + 1 ELSE built
        /\ identifier' = IF r.err = None
                         THEN [identifier EXCEPT ![built + 1] = NewIdentifier(r.key, built + 1)]
                         ELSE identifier
        /\ region' = IF r.err = None THEN [region EXCEPT ![built + 1] = rg] ELSE region
        /\ last' = [Call("create_node", r.ret, <<>>, r.err)
                       EXCEPT !.created = (r.err = None), !.byid = (id # None)]
        /\ UNCHANGED <<players, task, auto>>

(* ------------------------------------------------------------ start_node *)
\* start_node: create_node, then await node.start(); `out` is what start() raises
\* (None when it returns).  Nothing of the pool is touched after the await, so the
\* call is one step.  The node is built with the default region.
\* A variant that takes the node out of the mapping again when start() fails.
start_node_evict(d, id, n, out) ==
    LET r == create_node(d, id, n)
    IN  IF r.err # None
        THEN [nodes |-> r.nodes, key |-> r.key, ret |-> 0, started |-> FALSE, err |-> r.err]
        ELSE [nodes |-> IF out = None THEN r.nodes ELSE d, key |-> r.key,
              ret |-> IF out = None THEN n ELSE 0, started |-> TRUE, err |-> out]

start_node(d, id, n, out) ==
    LET r == create_node(d, id, n)
    IN  IF r.err # None
        THEN [nodes |-> r.nodes, key |-> r.key, ret |-> 0, started |-> FALSE, err |-> r.err]
        ELSE [nodes |-> r.nodes, key |-> r.key, ret |-> IF out = None THEN n ELSE 0,
              started |-> TRUE, err |-> out]

StartNode(id, out) ==
    LET r == start_node(nodes, id, built + 1, out)
    IN  /\ r.started => built < MaxNodes /\ Len(r.nodes) <= MaxEntries
        /\ nodes' = r.nodes
        /\ built' = IF r.started THEN built + 1 ELSE built
        /\ identifier' = IF r.started
                         THEN [identifier EXCEPT ![built + 1] = NewIdentifier(r.key, built + 1)]
                         ELSE identifier
        /\ last' = [Call("start_node", r.ret, <<>>, r.err)
                       EXCEPT !.created = r.started, !.byid = (id # None)]
        /\ UNCHANGED <<region, players, task, auto>>

(* -------------------------------------------------------------- get_node *)
RECURSIVE Filter(_, _)
\* (node for node in walk_nodes() if node.region == rg)
Filter(s, rg) ==
    IF s = <<>> THEN <<>>
    ELSE IF region[Head(s)] = rg THEN <<Head(s)>> \o Filter(Tail(s), rg)
         ELSE Filter(Tail(s), rg)

\* Insert x into the sorted sequence s behind every element whose key is <= x's.
RECURSIVE Insert(_, _)
Insert(s, x) ==
    IF s = <<>> THEN <<x>>
    ELSE IF player_count(Head(s)) <= player_count(x)
         THEN <<Head(s)>> \o Insert(Tail(s), x)
         ELSE <<x>> \o s

\* sorted(s, key=lambda node: node.player_count): a stable sort.
RECURSIVE sorted(_)
sorted(s) ==
    IF s = <<>> THEN <<>> ELSE Insert(sorted(SubSeq(s, 1, Len(s) - 1)), s[Len(s)])

\* A variant that takes the first candidate without sorting by load.
get_node_unsorted(d, id, rg) ==
    IF Len(d) = 0
    THEN [ret |-> 0, err |-> "NoAvailableNodes"]
    ELSE IF id # None
         THEN IF Has(d, id)
              THEN [ret |-> GetItem(d, id), err |-> None]
              ELSE [ret |-> 0, err |-> "NoMatches"]
         ELSE LET cand == IF rg # None THEN Filter(walk_nodes(d), rg) ELSE walk_nodes(d)
              IN  IF cand = <<>>
                  THEN [ret |-> 0, err |-> "NoMatches"]
                  ELSE [ret |-> cand[1], err |-> None]

\* A variant that looks the identifier up before it checks for an empty pool.
get_node_lookup_first(d, id, rg) ==
    IF id # None
    THEN IF Has(d, id)
         THEN [ret |-> GetItem(d, id), err |-> None]
         ELSE [ret |-> 0, err |-> "NoMatches"]
    ELSE IF Len(d) = 0
         THEN [ret |-> 0, err |-> "NoAvailableNodes"]
         ELSE LET cand == IF rg # None THEN Filter(walk_nodes(d), rg) ELSE walk_nodes(d)
              IN  IF cand = <<>>
                  THEN [ret |-> 0, err |-> "NoMatches"]
                  ELSE [ret |-> sorted(cand)[1], err |-> None]

\* A variant that falls back to every node when no node has the region asked for.
get_node_region_fallback(d, id, rg) ==
    IF Len(d) = 0
    THEN [ret |-> 0, err |-> "NoAvailableNodes"]
    ELSE IF id # None
         THEN IF Has(d, id)
              THEN [ret |-> GetItem(d, id), err |-> None]
              ELSE [ret |-> 0, err |-> "NoMatches"]
         ELSE LET some == IF rg # None THEN Filter(walk_nodes(d), rg) ELSE walk_nodes(d)
                  cand == IF some = <<>> THEN walk_nodes(d) ELSE some
              IN  [ret |-> sorted(cand)[1], err |-> None]

\* The result of get_node(identifier=id, region=rg) on mapping d.
get_node(d, id, rg) ==
    IF Len(d) = 0
    THEN [ret |-> 0, err |-> "NoAvailableNodes"]
    ELSE IF id # None
         THEN IF Has(d, id)
              THEN [ret |-> GetItem(d, id), err |-> None]
              ELSE [ret |-> 0, err |-> "NoMatches"]
         ELSE LET cand == IF rg # None THEN Filter(walk_nodes(d), rg) ELSE walk_nodes(d)
              IN  IF cand = <<>>
                  THEN [ret |-> 0, err |-> "NoMatches"]
                  ELSE [ret |-> sorted(cand)[1], err |-> None]

GetNode(id, rg) ==
    /\ LET r == get_node(nodes, id, rg)
       IN  last' = [Call("get_node", r.ret, <<>>, r.err) EXCEPT !.byid = (id # None)]
    /\ UNCHANGED <<nodes, built, identifier, region, players, task, auto>>

(* ------------------------------------------------------------ get_player *)
\* The first node, in walk_nodes order, that owns a player for g (0 if none).
RECURSIVE Scan(_, _)
Scan(s, g) ==
    IF s = <<>> THEN 0
    ELSE IF node_get_player(players, Head(s), g, TRUE).err = None THEN Head(s)
         ELSE Scan(Tail(s), g)

\* A variant that skips the scan for an existing player.
get_player_no_scan(d, g, n) ==
    LET pick == get_node(d, None, None)
    IN  IF n # 0 THEN node_get_player(players, n, g, FALSE)
        ELSE IF pick.err # None
             THEN [players |-> players, sess |-> <<>>, created |-> FALSE, err |-> pick.err]
             ELSE node_get_player(players, pick.ret, g, FALSE)

\* A variant that creates the player on the first registered node instead of the
\* one get_node() picks.
get_player_on_first(d, g, n) ==
    IF n = 0
    THEN LET found == Scan(walk_nodes(d), g)
             pick == get_node(d, None, None)
         IN  IF found # 0 THEN node_get_player(players, found, g, TRUE)
             ELSE IF pick.err # None
                  THEN [players |-> players, sess |-> <<>>, created |-> FALSE,
                        err |-> pick.err]
                  ELSE node_get_player(players, d[1].node, g, FALSE)
    ELSE node_get_player(players, n, g, FALSE)

\* The result of get_player(guild=g, node=n) (n = 0 for None) on mapping d.
get_player(d, g, n) ==
    IF n = 0
    THEN LET found == Scan(walk_nodes(d), g)
             pick == get_node(d, None, None)
         IN  IF found # 0 THEN node_get_player(players, found, g, TRUE)
             ELSE IF pick.err # None
                  THEN [players |-> players, sess |-> <<>>, created |-> FALSE,
                        err |-> pick.err]
                  ELSE node_get_player(players, pick.ret, g, FALSE)
    ELSE node_get_player(players, n, g, FALSE)

\* get_player(guild=g, node=n) apart from the history variable.
GetPlayerCall(g, n) ==
    /\ n \in 0..built
    /\ LET r == get_player(nodes, g, n)
       IN  /\ players' = r.players
           /\ last' = [Call("get_player", 0, r.sess, r.err)
                          EXCEPT !.created = r.created, !.byid = (n # 0)]
    /\ UNCHANGED <<nodes, built, identifier, region, task>>

GetPlayer(g, n) ==
    /\ GetPlayerCall(g, n)
    /\ LET r == get_player(nodes, g, n)
       IN  auto' = IF n = 0 /\ r.err = None THEN [auto EXCEPT ![g] = r.sess] ELSE auto

(* --------------------------------------------------------------- destroy *)
\* The loop of destroy() from the point where it asks the dict iterator for
\* the entry at position pos: the iterator raises RuntimeError if the dict's
\* size is not what it was when the iteration began, ends the loop (and the
\* mapping is cleared) past the last entry, and otherwise the coroutine calls
\* that node's destroy() and is suspended on it.
destroy_step(d, t, pos) ==
    IF Len(d) # t.used
    THEN [nodes |-> d, task |-> IdleTask, done |-> TRUE, err |-> "RuntimeError",
          torn |-> t.invoked]
    ELSE IF pos > Len(d)
         THEN [nodes |-> <<>>, task |-> IdleTask, done |-> TRUE, err |-> None,
               torn |-> t.invoked]
         ELSE [nodes |-> d,
               task |-> [t EXCEPT !.pc = "await", !.pos = pos, !.node = d[pos].node,
                                  !.invoked = @ \cup {d[pos].node}],
               done |-> FALSE, err |-> None, torn |-> {}]

DestroyReturn(r, reg) ==
    IF r.done
    THEN [Call("destroy", 0, <<>>, r.err) EXCEPT !.reg = reg, !.torn = r.torn]
    ELSE last

\* destroy() is called: runs up to its first await (or to its end on an empty pool).
\* One destroy() runs at a time.
DestroyCall ==
    /\ task.pc = "idle"
    /\ LET t == [IdleTask EXCEPT !.used = Len(nodes), !.reg = Range(walk_nodes(nodes))]
           r == destroy_step(nodes, t, 1)
       IN  /\ nodes' = r.nodes
           /\ task' = r.task
           /\ last' = DestroyReturn(r, t.reg)
    /\ auto' = NoAuto
    /\ UNCHANGED <<built, identifier, region, players>>

\* The awaited node.destroy() finishes: it releases the node's players and the
\* loop goes on, or it raises and the exception leaves destroy().
DestroyResume(ok) ==
    /\ task.pc = "await"
    /\ LET r == IF ok THEN destroy_step(nodes, task, task.pos + 1)
                ELSE [nodes |-> nodes, task |-> IdleTask, done |-> TRUE,
                      err |-> "TeardownFailure", torn |-> task.invoked]
       IN  /\ nodes' = r.nodes
           /\ task' = r.task
           /\ last' = DestroyReturn(r, task.reg)
           /\ players' = IF ok THEN [players EXCEPT ![task.node] = {}] ELSE players
    /\ auto' = NoAuto
    /\ UNCHANGED <<built, identifier, region>>

Next ==
    \/ \E id \in OwnIds : NewNode(id)
    \/ \E n \in NodeObj, id \in IdArgs \cup {None} : AddNode(n, id)
    \/ \E id \in IdArgs \cup {None}, rg \in NodeRegions : CreateNode(id, rg)
    \/ \E id \in IdArgs \cup {None}, out \in StartFailures \cup {None} : StartNode(id, out)
    \/ \E id \in LookupIds, rg \in RegionArgs : GetNode(id, rg)
    \/ \E rg \in RegionArgs : GetNode(None, rg)
    \/ \E g \in Guilds, n \in {0} \cup NodeObj : GetPlayer(g, n)
    \/ DestroyCall
    \/ \E ok \in BOOLEAN : DestroyResume(ok)

Spec == Init /\ [][Next]_vars

(* ------------------------------------------ registration and sessions only *)
\* get_player where the history of returned players is not kept.
GetSession(g, n) == GetPlayerCall(g, n) /\ UNCHANGED auto

\* Nodes are built and registered and sessions resolved, over more session keys;
\* nothing is looked up, started or torn down.
NextSessions ==
    \/ \E id \in OwnIds : NewNode(id)
    \/ \E n \in NodeObj, id \in IdArgs \cup {None} : AddNode(n, id)
    \/ \E id \in IdArgs \cup {None}, rg \in NodeRegions : CreateNode(id, rg)
    \/ \E g \in SessionKeys, n \in {0} \cup NodeObj : GetSession(g, n)

SpecSessions == Init /\ [][NextSessions]_vars

\* No player exists yet, on any Node.
NoSessionYet == \A n \in NodeObj : players[n] = {}

\* add_node / create_node called while no player exists.
AddNodeFirst(n, id) == NoSessionYet /\ AddNode(n, id)

CreateNodeFirst(id, rg) == NoSessionYet /\ CreateNode(id, rg)

\* Every node is registered before the first player exists, and players come to be
\* through get_player(guild) without a node only.
NextBalance ==
    \/ \E id \in OwnIds : NewNode(id)
    \/ \E n \in NodeObj, id \in IdArgs \cup {None} : AddNodeFirst(n, id)
    \/ \E id \in IdArgs \cup {None}, rg \in NodeRegions : CreateNodeFirst(id, rg)
    \/ \E g \in SessionKeys : GetSession(g, 0)

SpecBalance == Init /\ [][NextBalance]_vars

(* ============================================================ properties *)
\* The Nodes registered in the pool.
Registered == Range(walk_nodes(nodes))

\* Every identifier a caller may name: the explicit ones and the generated ones.
AllIds == LookupIds \cup {GenId(n) : n \in NodeObj}

\* The positions of the mapping that pass the region filter rg.
Passing(rg) == {i \in 1..Len(nodes) : rg = None \/ region[nodes[i].node] = rg}

(* ---- C1 ---- *)
\* C1: a session key has at most one live Session across all registered
\* Connections, whatever sequence of register / create / getOrCreateSession calls
\* (with or without an explicit connection) led to the state.
C1_OneSessionPerKey ==
    \A g \in Guilds : Cardinality({n \in Registered : g \in players[n]}) <= 1

(* ---- C2 ---- *)
\* C2: a create() with no identifier never fails with IdentifierConflict: the
\* first entry of a Registry it makes is under 'MAIN', any later one under an
\* identifier other than 'MAIN'.
C2_CreateWithoutIdNeverConflicts ==
    (last.op = "create_node" /\ ~last.byid) =>
        /\ last.err = None
        /\ \E i \in 1..Len(nodes) :
              /\ nodes[i].node = last.ret
              /\ nodes[i].key = "MAIN" <=> i = 1

(* ---- C3 ---- *)
\* C3: whenever register(c, identifier=I) succeeds, select(I) on the resulting
\* Registry returns c and a further register under I, with any connection, fails
\* with IdentifierConflict.
C3_RegisterThenSelect ==
    \A n \in 1..built, I \in IdArgs :
        LET r == add_node(nodes, n, I)
        IN  r.err = None =>
              /\ get_node(r.nodes, I, None) = [ret |-> n, err |-> None]
              /\ \A m \in 1..built : add_node(r.nodes, m, I).err = "NodeConflict"

(* ---- C4 ---- *)
\* C4: a teardown() in which one Connection's teardown failed has still invoked the
\* teardown of every Connection that was registered and has cleared the mapping.
C4_TeardownSurvivesFailure ==
    (last.op = "destroy" /\ last.err = "TeardownFailure") =>
        (last.reg \subseteq last.torn /\ nodes = <<>>)

(* ---- C5 ---- *)
\* C5: when teardown() has returned, it succeeded, it invoked the teardown of each
\* of the N Connections that were registered, and the Registry has zero entries; a
\* teardown() called again right then succeeds, tears down nothing and leaves the
\* Registry empty.
C5_TeardownClearsAndIsIdempotent ==
    last.op = "destroy" =>
        /\ last.err = None
        /\ last.reg \subseteq last.torn
        /\ nodes = <<>>
        /\ LET again == destroy_step(nodes, [IdleTask EXCEPT !.used = Len(nodes)], 1)
           IN  again.done /\ again.err = None /\ again.torn = {} /\ again.nodes = <<>>

(* ---- C6 ---- *)
\* C6: once getOrCreateSession(K) has returned a Session and no teardown has
\* happened since, getOrCreateSession(K) returns that same Session and creates
\* nothing, whatever was registered and however loads changed in between.
C6_SameSessionTwice ==
    \A g \in Guilds :
        auto[g] # <<>> =>
            LET r == get_player(nodes, g, 0)
            IN  r.err = None /\ r.sess = auto[g] /\ ~r.created

(* ---- C7 ---- *)
\* C7: select() with no identifier, when it returns, returns the Connection at the
\* earliest registration position among those passing the region filter whose load
\* is minimal among them.
C7_SelectLeastLoadedEarliest ==
    \A rg \in RegionArgs :
        LET r == get_node(nodes, None, rg)
        IN  r.err = None =>
              \E i \in Passing(rg) :
                  /\ nodes[i].node = r.ret
                  /\ \A j \in Passing(rg) :
                        /\ player_count(nodes[j].node) >= player_count(r.ret)
                        /\ player_count(nodes[j].node) = player_count(r.ret) => i <= j

\* select() has just returned the second-registered Node because the first one
\* carries more load.
C7_Witness ==
    /\ last.op = "get_node" /\ ~last.byid /\ last.err = None
    /\ Len(nodes) = 2
    /\ player_count(nodes[1].node) > player_count(nodes[2].node)
    /\ last.ret = nodes[2].node

(* ---- C8 ---- *)
\* C8 as stated: select(identifier=I) returns the Connection registered under I
\* whatever the loads and the region argument, and fails with NoMatch whenever no
\* Connection is registered under I.
C8_ExactLookupOrNoMatch ==
    \A I \in AllIds, rg \in RegionArgs :
        LET r == get_node(nodes, I, rg)
        IN  IF \E i \in 1..Len(nodes) : nodes[i].key = I
            THEN \E i \in 1..Len(nodes) :
                    nodes[i].key = I /\ r = [ret |-> nodes[i].node, err |-> None]
            ELSE r = [ret |-> 0, err |-> "NoMatches"]

\* C8 amended: select(identifier=I) returns the Connection registered under I
\* whatever the loads and the region argument; when no Connection is registered
\* under I it fails with NoMatch on a non-empty Registry and with
\* NoAvailableConnections on an empty one.
C8_ExactLookupAmended ==
    \A I \in AllIds, rg \in RegionArgs :
        LET r == get_node(nodes, I, rg)
        IN  IF \E i \in 1..Len(nodes) : nodes[i].key = I
            THEN \E i \in 1..Len(nodes) :
                    nodes[i].key = I /\ r = [ret |-> nodes[i].node, err |-> None]
            ELSE r = [ret |-> 0,
                      err |-> IF Len(nodes) = 0 THEN "NoAvailableNodes" ELSE "NoMatches"]

\* select(identifier=I) has just returned a Node although another registered Node
\* carries less load.
C8_Witness ==
    /\ last.op = "get_node" /\ last.byid /\ last.err = None
    /\ \E n \in Registered : player_count(n) < player_count(last.ret)

(* ---- C9 ---- *)
\* C9: select() with no identifier fails with NoAvailableConnections exactly when
\* the Registry is empty; select(region=R) on a non-empty Registry none of whose
\* Connections has region R fails with NoMatch; a failing select returns nothing.
C9_SelectFailures ==
    \A rg \in RegionArgs :
        LET r == get_node(nodes, None, rg)
        IN  /\ r.err = "NoAvailableNodes" <=> Len(nodes) = 0
            /\ (Len(nodes) > 0 /\ rg # None /\ \A n \in Registered : region[n] # rg)
                  => r.err = "NoMatches"
            /\ r.err # None => r.ret = 0

\* select(region=R) has just failed with NoMatch on a Registry that holds two
\* Connections.
C9_Witness ==
    /\ last.op = "get_node" /\ ~last.byid /\ last.err = "NoMatches"
    /\ Cardinality(Registered) = 2

(* ---- C10 ---- *)
\* C10: createAndStart leaves the Registry as create alone would; it fails with
\* create's IdentifierConflict without starting anything; otherwise it starts the
\* created Connection and what start() raises is what the caller gets.
C10_StartIsCreateThenStart ==
    \A id \in IdArgs \cup {None}, out \in StartFailures \cup {None} :
        LET c == create_node(nodes, id, built + 1)
            s == start_node(nodes, id, built + 1, out)
        IN  /\ s.nodes = c.nodes
            /\ c.err # None => (s.err = c.err /\ ~s.started /\ s.ret = 0)
            /\ c.err = None => (s.started /\ s.err = out)
            /\ (c.err = None /\ out = None) => s.ret = c.ret

\* createAndStart has just failed in start(), and the Connection it created is
\* registered.
C10_Witness ==
    /\ last.op = "start_node" /\ last.created /\ last.err \in StartFailures
    /\ built \in Registered

(* ---- C11 ---- *)
\* The keys of the mapping, in registration order.
KeyOrder(d) == [i \in 1..Len(d) |-> d[i].key]

IsPrefix(s, t) == Len(s) <= Len(t) /\ \A i \in 1..Len(s) : s[i] = t[i]

\* C11: the Registry is empty at construction, and every step either keeps each
\* identifier of the mapping at its registration position (new ones go behind
\* them) or is a step of teardown() that clears the mapping.
C11_OnlyTeardownRemoves ==
    /\ nodes = <<>>
    /\ [][\/ IsPrefix(KeyOrder(nodes), KeyOrder(nodes'))
          \/ /\ DestroyCall \/ \E ok \in BOOLEAN : DestroyResume(ok)
             /\ nodes' = <<>>]_vars

\* A registration onto a Registry that already held an entry has just succeeded,
\* and the older entry is still in front of the newer one.
C11_Witness ==
    /\ last.op \in {"add_node", "create_node", "start_node"} /\ last.err = None
    /\ Len(nodes) = 2
    /\ nodes[1].key # nodes[2].key

(* ---- C12 ---- *)
\* The attributes the __init__ of each error class sets on the error value
\* (HandshakeFailure defines none: it is a bare subclass of MagmaticException).
Attributes(class) ==
    CASE class = "ConnectionFailure"    -> {"node", "error"}
      [] class = "HandshakeFailure"     -> {}
      [] class = "AuthorizationFailure" -> {"node"}
      [] class = "NodeConflict"         -> {"pool", "identifier"}
      [] class = "NoAvailableNodes"     -> {"pool"}
      [] class = "NoMatches"            -> {"pool", "identifier", "region"}
      [] class = "PlayerNotFound"       -> {"node", "guild"}
      [] OTHER                          -> {}

\* C12: the error a call has just raised carries its identifying context:
\* IdentifierConflict the registry and the identifier, NoAvailableConnections the
\* registry, NoMatch the registry, identifier and region, SessionNotFound the
\* connection and the key, ConnectFailure, HandshakeFailure and AuthFailure the
\* connection.
C12_ErrorsCarryContext ==
    /\ last.err = "NodeConflict" => {"pool", "identifier"} \subseteq Attributes(last.err)
    /\ last.err = "NoAvailableNodes" => {"pool"} \subseteq Attributes(last.err)
    /\ last.err = "NoMatches" =>
          {"pool", "identifier", "region"} \subseteq Attributes(last.err)
    /\ last.err = "PlayerNotFound" => {"node", "guild"} \subseteq Attributes(last.err)
    /\ last.err \in {"ConnectionFailure", "HandshakeFailure", "AuthorizationFailure"} =>
          {"node"} \subseteq Attributes(last.err)

(* ---- C13 ---- *)
\* The positions of the mapping whose Node owns a player for g.
Owners(g) == {i \in 1..Len(nodes) : g \in players[nodes[i].node]}

\* C13: getOrCreateSession(K) with no connection returns the Session of the
\* earliest-registered Connection that owns one for K and creates nothing; if none
\* owns one it creates exactly one Session for K, on the Connection select() with
\* no filters returns, and nothing else; on an empty Registry it fails with
\* NoAvailableConnections and creates nothing.
C13_ScanThenSelect ==
    \A g \in SessionKeys :
        LET r == get_player(nodes, g, 0)
            s == get_node(nodes, None, None)
        IN  IF Owners(g) # {}
            THEN \E i \in Owners(g) :
                    /\ \A j \in Owners(g) : i <= j
                    /\ r = [players |-> players, sess |-> Player(nodes[i].node, g),
                            created |-> FALSE, err |-> None]
            ELSE IF Len(nodes) = 0
                 THEN r = [players |-> players, sess |-> <<>>, created |-> FALSE,
                           err |-> "NoAvailableNodes"]
                 ELSE /\ s.err = None
                      /\ r = [players |-> [players EXCEPT ![s.ret] = @ \cup {g}],
                              sess |-> Player(s.ret, g), created |-> TRUE, err |-> None]

\* getOrCreateSession(K) with no connection has just created a Session on the
\* second-registered Connection, the first one carrying more load even now.
C13_Witness ==
    /\ last.op = "get_player" /\ ~last.byid /\ last.created
    /\ Len(nodes) = 2 /\ nodes[1].node # nodes[2].node
    /\ last.sess[1] = nodes[2].node
    /\ player_count(nodes[1].node) > player_count(nodes[2].node)

(* ---- C14 ---- *)
\* Every entry of mapping d is an entry of mapping e.
Keeps(d, e) == \A i \in 1..Len(d) : Has(e, d[i].key) /\ GetItem(e, d[i].key) = d[i].node

\* C14: register and create, with any arguments and whether they succeed or fail,
\* leave every existing identifier mapped to the Connection it was mapped to, and
\* a successful register(c2, identifier=J) stores c2 under the key J.
C14_NeverReplaces ==
    /\ \A n \in 1..built, id \in IdArgs \cup {None} :
          LET r == add_node(nodes, n, id)
          IN  /\ Keeps(nodes, r.nodes)
              /\ (r.err = None /\ id # None) =>
                    (Has(r.nodes, id) /\ GetItem(r.nodes, id) = n)
    /\ \A id \in IdArgs \cup {None} :
          Keeps(nodes, create_node(nodes, id, built + 1).nodes)

(* ---- C15 ---- *)
\* The step is no part of destroy(), and the call record after it is that of a
\* call of one of ops that raised one of errs (None: returned).  Steps that leave
\* the record alone build a Node outside the pool and touch neither the mapping
\* nor any player.
Returned(ops, errs) ==
    /\ task.pc = "idle" /\ task'.pc = "idle"
    /\ last'.op \in ops /\ last'.err \in errs

\* C15: a call of register, create, createAndStart, select or getOrCreateSession
\* that fails with IdentifierConflict, NoMatch or NoAvailableConnections leaves the
\* mapping and every Connection's sessions as they were, and so does every select.
C15_FailedCallsChangeNothing ==
    [][(\/ Returned({"add_node", "create_node", "start_node", "get_node", "get_player"},
                    {"NodeConflict", "NoMatches", "NoAvailableNodes"})
        \/ Returned({"get_node"}, {None}))
          => (nodes' = nodes /\ players' = players)]_vars

\* register has just failed with IdentifierConflict on a Registry whose entry
\* for the identifier is another Connection, while a Session exists.
C15_Witness ==
    /\ last.op = "add_node" /\ last.err = "NodeConflict"
    /\ Len(nodes) = 1 /\ built = 2
    /\ identifier[1] = identifier[2]
    /\ players[nodes[1].node] # {}

(* ---- C16 ---- *)
\* C16: when every Connection was registered before the first Session existed and
\* Sessions were created through getOrCreateSession(K) without a connection only,
\* the owned-session counts of any two registered Connections differ by at most
\* one.
C16_LoadsWithinOne ==
    \A n, m \in Registered : player_count(n) - player_count(m) <= 1

\* Three Sessions have been created over two registered Connections: the first
\* owns two of them, the second one.
C16_Witness ==
    /\ last.op = "get_player" /\ last.created
    /\ Len(nodes) = 2
    /\ player_count(nodes[1].node) = 2
    /\ player_count(nodes[2].node) = 1

(* ---- C17 ---- *)
\* C17: a teardown() during which no Connection's teardown failed, whatever was
\* registered while it was suspended, has completed without error, has invoked
\* the teardown of every Connection that it found registered, and has left the
\* Registry empty.
C17_TeardownUnderRegistration ==
    (last.op = "destroy" /\ last.err # "TeardownFailure") =>
        /\ last.err = None
        /\ last.reg \subseteq last.torn
        /\ nodes = <<>>
====
